---- MODULE Spec2Model ----
(***************************************************************************)
(* A model of xchat-crypto (src/unnamed/part_000, src/src/index.ts):       *)
(* XUtils (bytesEqual, numberToUint8Arr, uint8ArrToNumber, packMessage,    *)
(* unpackMessage, emptyHeader, decodeHex, encodeHex), xConcat, xEncode,    *)
(* xMakeSalt and xKDF.                                                     *)
(*                                                                         *)
(* A Uint8Array is a sequence of integers 0..255.  A JavaScript string is  *)
(* the sequence of its UTF-16 code units, each an integer 0..65535 (the    *)
(* character "0" is 48, "a" is 97).  A JavaScript number that can          *)
(* exceed 31 bits is a record [neg, hi, lo] standing for                   *)
(* (-1)^neg * (hi * 2^24 + lo), with 0 <= lo < 2^24.                        *)
(***************************************************************************)
EXTENDS Integers, Sequences, FiniteSets, TLC

VARIABLES op, arg, ret, pc, bytes, salt, i

vars == <<op, arg, ret, pc, bytes, salt, i>>

(***************************************************************************)
(* Bounds of the model.                                                    *)
(***************************************************************************)
MaxLen == 3
MaxStr == 4
MaxArr == 1

(***************************************************************************)
(* Program constants.                                                      *)
(***************************************************************************)
KEY_LENGTH == 32
HEADER_SIZE == 32
XENCODE_KEY_LENGTH == 32
NUMBER_HEX_WIDTH == 12
LIMB == 256 * 256 * 256

CURVE == "X25519"
INFO == "xchat"
HASH == "SHA-512"

Curves == {"X25519", "X448"}

(***************************************************************************)
(* Sequences.                                                              *)
(***************************************************************************)
SeqsUpTo(S, n) == UNION {[1..k -> S] : k \in 0..n}

Min(a, b) == IF a < b THEN a ELSE b

\* TypedArray.prototype.slice(start, end) and slice(start), 0-based, with
\* end clamped to the length.
Slice(s, start, end) ==
    LET e == Min(end, Len(s))
    IN  IF start >= e THEN <<>> ELSE [k \in 1..(e - start) |-> s[start + k]]

SliceFrom(s, start) == Slice(s, start, Len(s))

\* A byte sequence of a given length fixed by its first byte, its last byte
\* and the byte everywhere between.
Pattern(len, first, fill, last) ==
    [k \in 1..len |-> IF k = len THEN last ELSE IF k = 1 THEN first ELSE fill]

(***************************************************************************)
(* Results of a call: a returned value or a thrown error.                  *)
(***************************************************************************)
Return(v) == [kind |-> "return", val |-> v, err |-> ""]
Throw(e) == [kind |-> "throw", val |-> <<>>, err |-> e]
NoResult == [kind |-> "none", val |-> <<>>, err |-> ""]

(***************************************************************************)
(* Hex strings.                                                            *)
(***************************************************************************)
\* The digits "0".."9" and "a".."f", as Number.prototype.toString(16) writes
\* them.
HexChars == <<48, 49, 50, 51, 52, 53, 54, 55,
              56, 57, 97, 98, 99, 100, 101, 102>>

\* The digits "0".."9" and "A".."F", which parseInt reads too.
UpperHexChars == <<48, 49, 50, 51, 52, 53, 54, 55,
                   56, 57, 65, 66, 67, 68, 69, 70>>

IsDigit16(c) == \E d \in 1..16 : HexChars[d] = c \/ UpperHexChars[d] = c

DigitValue(c) ==
    (CHOOSE d \in 1..16 : HexChars[d] = c \/ UpperHexChars[d] = c) - 1

\* Number.prototype.toString(16) of a non-negative integer below 2^31.
RECURSIVE NatToString16(_)
NatToString16(n) ==
    IF n < 16 THEN <<HexChars[n + 1]>>
    ELSE NatToString16(n \div 16) \o <<HexChars[(n % 16) + 1]>>

\* String.prototype.padStart(width, "0").
RECURSIVE padStart(_, _)
padStart(str, width) ==
    IF Len(str) >= width THEN str ELSE padStart(<<48>> \o str, width)

\* XUtils.encodeHex: reduce over the bytes, appending
\* byte.toString(16).padStart(2, "0").
RECURSIVE encodeHexNoPad(_)
encodeHexNoPad(b) ==
    IF b = <<>> THEN <<>>
    ELSE encodeHexNoPad(SubSeq(b, 1, Len(b) - 1)) \o NatToString16(b[Len(b)])

RECURSIVE encodeHex(_)
encodeHex(b) ==
    IF b = <<>> THEN <<>>
    ELSE encodeHex(SubSeq(b, 1, Len(b) - 1))
             \o padStart(NatToString16(b[Len(b)]), 2)

\* The line terminators, which the "." of a regular expression does not
\* match: LF, CR, U+2028 and U+2029.
LineTerminators == {10, 13, 8232, 8233}

\* The white space parseInt drops before the number (StrWhiteSpaceChar):
\* TAB, VT, FF, the space separators (SP, NBSP, U+1680, U+2000..U+200A,
\* U+202F, U+205F, U+3000), U+FEFF and the line terminators.
WhiteSpace ==
    {9, 11, 12, 32, 160, 5760, 8239, 8287, 12288, 65279}
        \cup (8192..8202) \cup LineTerminators

\* String.prototype.match(/.{1,2}/g): scanning from the left, a line
\* terminator is skipped, and any other character starts a group that takes
\* the next character too unless that one is a line terminator or the string
\* has ended.  The empty result stands for null (no match).
RECURSIVE matchPairs(_)
matchPairs(str) ==
    IF str = <<>> THEN <<>>
    ELSE IF str[1] \in LineTerminators THEN matchPairs(Tail(str))
    ELSE IF Len(str) >= 2 /\ str[2] \notin LineTerminators
    THEN <<SubSeq(str, 1, 2)>> \o matchPairs(SubSeq(str, 3, Len(str)))
    ELSE <<SubSeq(str, 1, 1)>> \o matchPairs(Tail(str))

\* The value of the longest prefix of hex digits of str, with how many
\* digits it has.
RECURSIVE DigitPrefix(_, _, _)
DigitPrefix(str, acc, count) ==
    IF str # <<>> /\ IsDigit16(str[1])
    THEN DigitPrefix(Tail(str), acc * 16 + DigitValue(str[1]), count + 1)
    ELSE [v |-> acc, n |-> count]

NaN == [nan |-> TRUE, v |-> 0]
Num(n) == [nan |-> FALSE, v |-> n]

RECURSIVE TrimStart(_)
TrimStart(str) ==
    IF str # <<>> /\ str[1] \in WhiteSpace THEN TrimStart(Tail(str)) ELSE str

\* parseInt(str, 16): leading white space is dropped, then an optional sign
\* ("-" is 45, "+" is 43), then an optional 0x or 0X ("0" is 48, "x" is 120,
\* "X" is 88), then the longest prefix of hex digits; NaN when that prefix is
\* empty.
parseInt16(str) ==
    LET s1 == TrimStart(str)
        signed == s1 # <<>> /\ s1[1] \in {45, 43}
        sign == IF s1 # <<>> /\ s1[1] = 45 THEN -1 ELSE 1
        s2 == IF signed THEN Tail(s1) ELSE s1
        s3 == IF Len(s2) >= 2 /\ s2[1] = 48 /\ s2[2] \in {120, 88}
              THEN Tail(Tail(s2)) ELSE s2
        p == DigitPrefix(s3, 0, 0)
    IN  IF p.n = 0 THEN NaN ELSE Num(sign * p.v)

\* The conversion of a number stored into a Uint8Array element: NaN becomes
\* 0, every other value is taken modulo 256.
ToUint8(x) == IF x.nan THEN 0 ELSE x.v % 256

\* XUtils.decodeHex: when the match is null (a string of line terminators
\* only), the call of map on it throws a TypeError.
decodeHex(hexString) ==
    IF Len(hexString) = 0 THEN Return(<<>>)
    ELSE LET groups == matchPairs(hexString)
         IN  IF groups = <<>> THEN Throw("TypeError")
             ELSE Return([k \in 1..Len(groups) |->
                             ToUint8(parseInt16(groups[k]))])

(***************************************************************************)
(* XUtils.bytesEqual.                                                      *)
(***************************************************************************)
\* The element of an Int8Array view over a byte.
Int8Low7(b) == b % 128

Int8(b) == IF b >= 128 THEN b - 256 ELSE b

RECURSIVE bytesEqualLoop(_, _, _)
bytesEqualLoop(buf1, buf2, k) ==
    IF k = Len(buf1) THEN TRUE
    ELSE IF Int8(buf1[k + 1]) # Int8(buf2[k + 1]) THEN FALSE
    ELSE bytesEqualLoop(buf1, buf2, k + 1)

bytesEqual(buf1, buf2) ==
    IF Len(buf1) # Len(buf2) THEN Return(FALSE)
    ELSE Return(bytesEqualLoop(buf1, buf2, 0))

(***************************************************************************)
(* XUtils.numberToUint8Arr and XUtils.uint8ArrToNumber.                    *)
(***************************************************************************)
Number(neg, hi, lo) == [neg |-> neg, hi |-> hi, lo |-> lo]

\* Number.prototype.toString(16); the sign "-" is 45.
numberToString16(n) ==
    (IF n.neg THEN <<45>> ELSE <<>>)
        \o (IF n.hi = 0 THEN NatToString16(n.lo)
            ELSE NatToString16(n.hi) \o padStart(NatToString16(n.lo), 6))

numberToUint8Arr(n) == decodeHex(padStart(numberToString16(n), NUMBER_HEX_WIDTH))

RECURSIVE BytesToNat(_)
BytesToNat(b) ==
    IF b = <<>> THEN 0
    ELSE BytesToNat(SubSeq(b, 1, Len(b) - 1)) * 256 + b[Len(b)]

\* Buffer.readUIntBE(0, arr.length): the byte length must be 1..6.
uint8ArrToNumber(arr) ==
    IF Len(arr) < 1 \/ Len(arr) > 6 THEN Throw("ERR_OUT_OF_RANGE")
    ELSE IF Len(arr) <= 3 THEN Return(Number(FALSE, 0, BytesToNat(arr)))
    ELSE Return(Number(FALSE, BytesToNat(SubSeq(arr, 1, Len(arr) - 3)),
                       BytesToNat(SubSeq(arr, Len(arr) - 2, Len(arr)))))

(***************************************************************************)
(* xConcat.                                                                *)
(***************************************************************************)
Zeros(n) == [k \in 1..n |-> 0]

\* TypedArray.prototype.set(array, offset).
TypedArraySet(result, array, offset) ==
    [k \in 1..Len(result) |->
        IF k > offset /\ k <= offset + Len(array) THEN array[k - offset]
        ELSE result[k]]

RECURSIVE totalLength(_)
totalLength(arrays) ==
    IF arrays = <<>> THEN 0 ELSE Len(arrays[1]) + totalLength(Tail(arrays))

RECURSIVE xConcatLoop(_, _, _)
xConcatLoop(result, arrays, length) ==
    IF arrays = <<>> THEN result
    ELSE xConcatLoop(TypedArraySet(result, arrays[1], length), Tail(arrays),
                     length + Len(arrays[1]))

xConcatReversed(arrays) ==
    xConcatLoop(Zeros(totalLength(arrays)),
                [k \in 1..Len(arrays) |-> arrays[Len(arrays) + 1 - k]], 0)

xConcat(arrays) ==
    IF Len(arrays) = 0 THEN <<>>
    ELSE xConcatLoop(Zeros(totalLength(arrays)), arrays, 0)

(***************************************************************************)
(* The external codec (msgpack-lite), on the values and the type bytes the *)
(* model uses: nil, undefined, false, true, the integers -32..127 and      *)
(* arrays of at most 15 elements.                                          *)
(***************************************************************************)
Val(t, v, elems) == [t |-> t, v |-> v, elems |-> elems]
Nil == Val("nil", 0, <<>>)
Undefined == Val("undefined", 0, <<>>)
False == Val("false", 0, <<>>)
True == Val("true", 0, <<>>)
IntVal(n) == Val("int", n, <<>>)
Array(elems) == Val("array", 0, elems)

\* msgpack.encode: undefined is written as nil.
RECURSIVE msgpack_encode(_)
msgpack_encode(x) ==
    CASE x.t \in {"nil", "undefined"} -> <<192>>
      [] x.t = "false" -> <<194>>
      [] x.t = "true" -> <<195>>
      [] x.t = "int" -> IF x.v >= 0 THEN <<x.v>> ELSE <<256 + x.v>>
      [] x.t = "array" ->
            <<144 + Len(x.elems)>>
                \o xConcat([k \in 1..Len(x.elems) |-> msgpack_encode(x.elems[k])])

Ok(v, rest) == [ok |-> TRUE, val |-> v, rest |-> rest, err |-> ""]
Fail(e) == [ok |-> FALSE, val |-> <<>>, rest |-> <<>>, err |-> e]

\* The decoder reads one value from the front of the buffer and raises
\* BUFFER_SHORTAGE when the buffer ends before the value does.
RECURSIVE DecodeValue(_)
RECURSIVE DecodeItems(_, _)
DecodeValue(b) ==
    IF b = <<>> THEN Fail("BUFFER_SHORTAGE")
    ELSE LET type == b[1]
             r == Tail(b)
         IN  CASE type < 128 -> Ok(IntVal(type), r)
               [] type >= 144 /\ type <= 159 ->
                     LET items == DecodeItems(r, type - 144)
                     IN  IF items.ok THEN Ok(Array(items.val), items.rest)
                         ELSE items
               [] type = 192 -> Ok(Nil, r)
               [] type = 194 -> Ok(False, r)
               [] type = 195 -> Ok(True, r)
               [] type >= 224 -> Ok(IntVal(type - 256), r)

DecodeItems(b, n) ==
    IF n = 0 THEN Ok(<<>>, b)
    ELSE LET h == DecodeValue(b)
         IN  IF ~h.ok THEN h
             ELSE LET t == DecodeItems(h.rest, n - 1)
                  IN  IF ~t.ok THEN t ELSE Ok(<<h.val>> \o t.val, t.rest)

\* msgpack.decode: the first value of the buffer.
msgpack_decode(b) ==
    LET d == DecodeValue(b)
    IN  IF d.ok THEN Return(d.val) ELSE Throw(d.err)

(***************************************************************************)
(* XUtils.emptyHeader, XUtils.packMessage, XUtils.unpackMessage.           *)
(***************************************************************************)
\* An optional argument.
Given(v) == [present |-> TRUE, value |-> v]
Omitted == [present |-> FALSE, value |-> <<>>]

emptyHeader == Zeros(HEADER_SIZE)

packMessage(msg, header) ==
    LET msgb == msgpack_encode(msg)
        msgh == IF header.present THEN header.value ELSE emptyHeader
    IN  Return(xConcat(<<msgh, msgb>>))

unpackMessageSplitLate(msg) ==
    LET msgh == Slice(msg, 0, HEADER_SIZE + 1)
        msgb == msgpack_decode(SliceFrom(msg, HEADER_SIZE + 1))
    IN  IF msgb.kind = "throw" THEN msgb
        ELSE Return([header |-> msgh, body |-> msgb.val])

unpackMessage(msg) ==
    LET msgp == msg
        msgh == Slice(msgp, 0, HEADER_SIZE)
        msgb == msgpack_decode(SliceFrom(msgp, HEADER_SIZE))
    IN  IF msgb.kind = "throw" THEN msgb
        ELSE Return([header |-> msgh, body |-> msgb.val])

(***************************************************************************)
(* xEncode, isEven.                                                        *)
(***************************************************************************)
\* BigInt("0x" + hex): the digits of the integer in base 16, most
\* significant first.
BigInt16(hex) == [k \in 1..Len(hex) |-> DigitValue(hex[k])]

\* value % m, by Horner's rule on the digits.
RECURSIVE BigMod(_, _)
BigMod(value, m) ==
    IF value = <<>> THEN 0
    ELSE (BigMod(SubSeq(value, 1, Len(value) - 1), m) * 16
            + value[Len(value)]) % m

isEvenInverted(value) == BigMod(value, 2) # 0

isEven(value) == BigMod(value, 2) = 0

InvalidKeyLengthShortOnly(publicKey) == Len(publicKey) < XENCODE_KEY_LENGTH

InvalidKeyLength(publicKey) == Len(publicKey) # XENCODE_KEY_LENGTH

curveTag(curveType) == IF curveType = "X25519" THEN 0 ELSE 1

(***************************************************************************)
(* keyLength, xMakeSalt, xKDF.                                             *)
(***************************************************************************)
keyLength(curve) == IF curve = "X25519" THEN 32 ELSE 57

\* hkdf(ikm, length, {salt, info, hash}) of futoin-hkdf: a function of its
\* arguments.
hkdf(ikm, length, s, info, hash) ==
    [ikm |-> ikm, length |-> length, salt |-> s, info |-> info, hash |-> hash]

(***************************************************************************)
(* The inputs the calls are made with.                                     *)
(***************************************************************************)
HexBytes == {0, 1, 15, 16, 128, 255}
EqualBytes == {0, 128, 255}
\* "0", "a", "F", "g", "-", "x", the space, VT, LF and U+2028.
StrChars == {48, 97, 70, 103, 45, 120, 32, 11, 10, 8232}
KeyBytes == {0, 1, 254, 255}
KeyLens == {0, 1, 31, 32, 33}
HeaderBytes == {0, 145, 192, 255}
HeaderLens == {0, 1, 31, 32, 33, 34}
MsgLens == {0, 1, 31, 32, 33, 34, 35}
Limbs == {0, 1, 255, 256, 1193046, LIMB - 1}
HighLimbs == Limbs \cup {LIMB, LIMB + 1}
ArrLens == 0..7

Scalars == {Nil, Undefined, False, True, IntVal(0), IntVal(127), IntVal(-1)}
Bodies == Scalars \cup {Array(e) : e \in SeqsUpTo(Scalars, MaxArr)}

Numbers ==
    {Number(neg, hi, lo) : neg \in BOOLEAN, hi \in HighLimbs, lo \in Limbs}
        \ {Number(TRUE, 0, 0)}

(***************************************************************************)
(* The state: the call being made (op, arg), where it stands (pc), its     *)
(* locals (bytes, salt, i) and its result (ret).                           *)
(***************************************************************************)
Init ==
    /\ op = "idle"
    /\ arg = <<>>
    /\ ret = NoResult
    /\ pc = "idle"
    /\ bytes = <<>>
    /\ salt = <<>>
    /\ i = 0

Ready == pc = "idle"

\* A call that runs in one step.
Call(name, a, r) ==
    /\ op' = name
    /\ arg' = a
    /\ ret' = r
    /\ pc' = IF r.kind = "throw" THEN "threw" ELSE "done"
    /\ bytes' = <<>>
    /\ salt' = <<>>
    /\ i' = 0

BytesEqual ==
    /\ Ready
    /\ \E a, b \in SeqsUpTo(EqualBytes, MaxLen) :
        Call("bytesEqual", [buf1 |-> a, buf2 |-> b], bytesEqual(a, b))

EncodeHex ==
    /\ Ready
    /\ \E b \in SeqsUpTo(HexBytes, MaxLen) :
        Call("encodeHex", [bytes |-> b], Return(encodeHex(b)))

DecodeHex ==
    /\ Ready
    /\ \E str \in SeqsUpTo(StrChars, MaxStr) :
        Call("decodeHex", [hexString |-> str], decodeHex(str))

NumberToUint8Arr ==
    /\ Ready
    /\ \E n \in Numbers :
        Call("numberToUint8Arr", [n |-> n], numberToUint8Arr(n))

Uint8ArrToNumber ==
    /\ Ready
    /\ \E len \in ArrLens, first, fill, last \in HexBytes :
        LET arr == Pattern(len, first, fill, last)
        IN  Call("uint8ArrToNumber", [arr |-> arr], uint8ArrToNumber(arr))

Headers ==
    {Pattern(len, first, fill, last) :
        len \in HeaderLens, first \in HeaderBytes, fill \in HeaderBytes,
        last \in HeaderBytes}

PackMessage ==
    /\ Ready
    /\ \E msg \in Bodies, header \in {Given(h) : h \in Headers} \cup {Omitted} :
        Call("packMessage", [msg |-> msg, header |-> header],
             packMessage(msg, header))

UnpackMessage ==
    /\ Ready
    /\ \E len \in MsgLens, first, fill, last \in HeaderBytes :
        LET msg == Pattern(len, first, fill, last)
        IN  Call("unpackMessage", [msg |-> msg], unpackMessage(msg))

\* A caller that packs a message and unpacks what it packed; bytes keeps
\* the packed message.
PackUnpack ==
    /\ Ready
    /\ \E msg \in Bodies, header \in {Given(h) : h \in Headers} \cup {Omitted} :
        LET packed == packMessage(msg, header).val
        IN  /\ op' = "packUnpack"
            /\ arg' = [msg |-> msg, header |-> header]
            /\ ret' = unpackMessage(packed)
            /\ pc' = IF ret'.kind = "throw" THEN "threw" ELSE "done"
            /\ bytes' = packed
            /\ salt' = <<>>
            /\ i' = 0

(***************************************************************************)
(* xEncode, statement by statement.                                        *)
(***************************************************************************)
CallXEncode ==
    /\ Ready
    /\ \E curveType \in Curves, len \in KeyLens, first, fill, last \in KeyBytes :
        /\ op' = "xEncode"
        /\ arg' = [curveType |-> curveType,
                   publicKey |-> Pattern(len, first, fill, last)]
        /\ ret' = NoResult
        /\ pc' = "check"
        /\ bytes' = <<>>
        /\ salt' = <<>>
        /\ i' = 0

XEncodeCheck ==
    /\ op = "xEncode"
    /\ pc = "check"
    /\ IF InvalidKeyLength(arg.publicKey)
       THEN /\ pc' = "threw"
            /\ ret' = Throw("InvalidKeyLength")
       ELSE /\ pc' = "tag"
            /\ ret' = ret
    /\ UNCHANGED <<op, arg, bytes, salt, i>>

XEncodeTag ==
    /\ op = "xEncode"
    /\ pc = "tag"
    /\ bytes' = Append(bytes, curveTag(arg.curveType))
    /\ pc' = "parity"
    /\ UNCHANGED <<op, arg, ret, salt, i>>

XEncodeParity ==
    /\ op = "xEncode"
    /\ pc = "parity"
    /\ LET key == BigInt16(encodeHex(arg.publicKey))
       IN  bytes' = Append(bytes, IF isEven(key) THEN 0 ELSE 1)
    /\ pc' = "copy"
    /\ i' = 0
    /\ UNCHANGED <<op, arg, ret, salt>>

XEncodeCopy ==
    /\ op = "xEncode"
    /\ pc = "copy"
    /\ IF i < Len(arg.publicKey)
       THEN /\ bytes' = Append(bytes, arg.publicKey[i + 1])
            /\ i' = i + 1
            /\ UNCHANGED <<pc, ret>>
       ELSE /\ pc' = "done"
            /\ ret' = Return(bytes)
            /\ UNCHANGED <<bytes, i>>
    /\ UNCHANGED <<op, arg, salt>>

(***************************************************************************)
(* xMakeSalt and xKDF, statement by statement.                             *)
(***************************************************************************)
IKMs == SeqsUpTo({0, 255}, 2)

CallXMakeSalt ==
    /\ Ready
    /\ \E curve \in Curves :
        /\ op' = "xMakeSalt"
        /\ arg' = [curve |-> curve, IKM |-> <<>>]
        /\ ret' = NoResult
        /\ pc' = "salt_alloc"
        /\ bytes' = <<>>
        /\ salt' = <<>>
        /\ i' = 0

\* xKDF calls xMakeSalt(xConstants.CURVE).
CallXKDF ==
    /\ Ready
    /\ \E IKM \in IKMs :
        /\ op' = "xKDF"
        /\ arg' = [curve |-> CURVE, IKM |-> IKM]
        /\ ret' = NoResult
        /\ pc' = "salt_alloc"
        /\ bytes' = <<>>
        /\ salt' = <<>>
        /\ i' = 0

XMakeSaltAlloc ==
    /\ pc = "salt_alloc"
    /\ salt' = Zeros(keyLength(arg.curve))
    /\ i' = 0
    /\ pc' = "salt_fill"
    /\ UNCHANGED <<op, arg, ret, bytes>>

XMakeSaltFill ==
    /\ pc = "salt_fill"
    /\ IF i < keyLength(arg.curve)
       THEN /\ salt' = TypedArraySet(salt, <<255>>, 0)
            /\ i' = i + 1
            /\ pc' = pc
       ELSE /\ pc' = "salt_done"
            /\ UNCHANGED <<salt, i>>
    /\ UNCHANGED <<op, arg, ret, bytes>>

XMakeSaltReturn ==
    /\ op = "xMakeSalt"
    /\ pc = "salt_done"
    /\ ret' = Return(salt)
    /\ pc' = "done"
    /\ UNCHANGED <<op, arg, bytes, salt, i>>

XKDFDerive ==
    /\ op = "xKDF"
    /\ pc = "salt_done"
    /\ ret' = Return(hkdf(arg.IKM, KEY_LENGTH, salt, INFO, HASH))
    /\ pc' = "done"
    /\ UNCHANGED <<op, arg, bytes, salt, i>>

\* The caller has taken the result; the next call can be made.
Finish ==
    /\ pc \in {"done", "threw"}
    /\ op' = "idle"
    /\ arg' = <<>>
    /\ ret' = NoResult
    /\ pc' = "idle"
    /\ bytes' = <<>>
    /\ salt' = <<>>
    /\ i' = 0

Next ==
    \/ BytesEqual
    \/ EncodeHex
    \/ DecodeHex
    \/ NumberToUint8Arr
    \/ Uint8ArrToNumber
    \/ PackMessage
    \/ UnpackMessage
    \/ PackUnpack
    \/ CallXEncode
    \/ XEncodeCheck
    \/ XEncodeTag
    \/ XEncodeParity
    \/ XEncodeCopy
    \/ CallXMakeSalt
    \/ CallXKDF
    \/ XMakeSaltAlloc
    \/ XMakeSaltFill
    \/ XMakeSaltReturn
    \/ XKDFDerive
    \/ Finish

Spec == Init /\ [][Next]_vars

(***************************************************************************)
(* The properties.                                                         *)
(***************************************************************************)
Finished == pc \in {"done", "threw"}

\* The header packMessage puts in front: the argument, or emptyHeader().
HeaderUsed == IF arg.header.present THEN arg.header.value ELSE Zeros(32)

\* A body the codec round-trips.
RoundTrips(b) == msgpack_decode(msgpack_encode(b)) = Return(b)

\* C1: for every 32-byte public key k, xEncode("X25519", k) returns 34
\* bytes: byte 0 is 0, byte 1 is 0 or 1 and is the least-significant bit of
\* k read as a big-endian unsigned integer (the low bit of its last byte),
\* and bytes 2..33 are k in the same order.
C1_XEncodeX25519 ==
    (/\ op = "xEncode"
     /\ Finished
     /\ arg.curveType = "X25519"
     /\ Len(arg.publicKey) = 32)
        => /\ ret.kind = "return"
           /\ Len(ret.val) = 34
           /\ ret.val[1] = 0
           /\ ret.val[2] \in {0, 1}
           /\ ret.val[2] = arg.publicKey[32] % 2
           /\ \A k \in 1..32 : ret.val[k + 2] = arg.publicKey[k]

C1_Witness ==
    /\ op = "xEncode"
    /\ pc = "done"
    /\ arg.curveType = "X25519"
    /\ Len(arg.publicKey) = 32
    /\ arg.publicKey[1] = 254
    /\ arg.publicKey[32] = 255
    /\ ret.val[2] = 1

\* C2: xEncode raises the invalid-key-length error for every publicKey whose
\* length is not 32, for both curve types, and the length check comes before
\* any output byte: once the check has run, the call has thrown and no byte
\* has been pushed.
C2_XEncodeInvalidLength ==
    (/\ op = "xEncode"
     /\ Len(arg.publicKey) # 32
     /\ pc # "check")
        => /\ pc = "threw"
           /\ ret = Throw("InvalidKeyLength")
           /\ bytes = <<>>

C2_Witness ==
    /\ op = "xEncode"
    /\ pc = "threw"
    /\ arg.curveType = "X448"
    /\ Len(arg.publicKey) = 33
    /\ ret.err = "InvalidKeyLength"

\* C3: for every header h of exactly 32 bytes and every body b the codec
\* round-trips, unpackMessage(packMessage(b, h)) returns the header h and
\* the body b.
C3_PackUnpackRoundTrip ==
    (/\ op = "packUnpack"
     /\ arg.header.present
     /\ Len(arg.header.value) = 32
     /\ RoundTrips(arg.msg))
        => /\ ret.kind = "return"
           /\ ret.val.header = arg.header.value
           /\ ret.val.body = arg.msg

C3_Witness ==
    /\ op = "packUnpack"
    /\ arg.header.present
    /\ Len(arg.header.value) = 32
    /\ arg.header.value[1] = 145
    /\ arg.header.value[32] = 255
    /\ arg.msg = Array(<<IntVal(127)>>)
    /\ ret.kind = "return"
    /\ ret.val.body = Array(<<IntVal(127)>>)

\* C4: for every byte sequence b, the empty one included,
\* decodeHex(encodeHex(b)) = b, and encodeHex(b) has 2 * length(b)
\* characters, two lowercase hex digits for each byte, the high digit first.
C4_HexRoundTrip ==
    op = "encodeHex"
        => /\ ret.kind = "return"
           /\ decodeHex(ret.val) = Return(arg.bytes)
           /\ Len(ret.val) = 2 * Len(arg.bytes)
           /\ \A k \in 1..Len(arg.bytes) :
                /\ ret.val[2 * k - 1] = HexChars[(arg.bytes[k] \div 16) + 1]
                /\ ret.val[2 * k] = HexChars[(arg.bytes[k] % 16) + 1]

C4_Witness ==
    /\ op = "encodeHex"
    /\ arg.bytes = <<15, 0, 255>>
    /\ ret.val = <<48, 102, 48, 48, 102, 102>>

\* C5 (as claimed): unpackMessage fails with a TruncatedMessage error for
\* every input shorter than 32 bytes, and never returns a header shorter
\* than 32 bytes.
C5_UnpackTruncated ==
    op = "unpackMessage"
        => /\ Len(arg.msg) < HEADER_SIZE
                => (ret.kind = "throw" /\ ret.err = "TruncatedMessage")
           /\ ret.kind = "return" => Len(ret.val.header) = HEADER_SIZE

\* C6 (as claimed): decodeHex fails with a MalformedInput error for every
\* string of odd length or with a character that is not a hex digit, and
\* returns no bytes for it.
C6_DecodeHexMalformed ==
    (/\ op = "decodeHex"
     /\ \/ Len(arg.hexString) % 2 = 1
        \/ \E k \in 1..Len(arg.hexString) : ~IsDigit16(arg.hexString[k]))
        => ret = Throw("MalformedInput")

\* The six bytes of hi * 2^24 + lo, most significant first.
BigEndian6(n) ==
    <<(n.hi \div 65536) % 256, (n.hi \div 256) % 256, n.hi % 256,
      (n.lo \div 65536) % 256, (n.lo \div 256) % 256, n.lo % 256>>

\* C7 (as claimed): numberToUint8Arr(n) returns the 6 big-endian bytes of n
\* for every 0 <= n < 2^48, so that uint8ArrToNumber gives n back, and fails
\* with a RangeError for every n that is negative or at least 2^48.
C7_NumberToUint8Arr ==
    op = "numberToUint8Arr"
        => IF ~arg.n.neg /\ arg.n.hi < LIMB
           THEN /\ ret = Return(BigEndian6(arg.n))
                /\ uint8ArrToNumber(ret.val) = Return(arg.n)
           ELSE /\ ret.kind = "throw"
                /\ ret.err = "RangeError"

\* C8: bytesEqual(a, b) never raises and returns true exactly when a and b
\* have the same length and the same byte at every index.
C8_BytesEqual ==
    op = "bytesEqual"
        => /\ ret.kind = "return"
           /\ ret.val \in BOOLEAN
           /\ ret.val <=>
                /\ Len(arg.buf1) = Len(arg.buf2)
                /\ \A k \in 1..Len(arg.buf1) : arg.buf1[k] = arg.buf2[k]

C8_Witness ==
    /\ op = "bytesEqual"
    /\ Len(arg.buf1) = 2
    /\ Len(arg.buf2) = 2
    /\ arg.buf1[1] = arg.buf2[1]
    /\ arg.buf1[2] = 0
    /\ arg.buf2[2] = 128
    /\ ret.val = FALSE

\* C9 (as claimed): the salt xMakeSalt(curve) builds, which xKDF passes to
\* HKDF, has keyLength(curve) bytes, and once the fill loop has ended every
\* one of them is 0xFF.
C9_SaltAllFF ==
    /\ (pc = "salt_done" \/ (op \in {"xMakeSalt", "xKDF"} /\ pc = "done"))
            => /\ Len(salt) = keyLength(arg.curve)
               /\ \A k \in 1..Len(salt) : salt[k] = 255
    /\ (op = "xKDF" /\ pc = "done")
            => /\ Len(ret.val.salt) = keyLength(CURVE)
               /\ \A k \in 1..Len(ret.val.salt) : ret.val.salt[k] = 255

\* What C10 says of packMessage: no check of the header's length, the
\* result is the header used followed by encode(b), and an omitted header
\* is 32 zero bytes.
PackMessageFrames ==
    op = "packMessage"
        => /\ ret.kind = "return"
           /\ ret.val = HeaderUsed \o msgpack_encode(arg.msg)
           /\ Len(ret.val) = Len(HeaderUsed) + Len(msgpack_encode(arg.msg))
           /\ ~arg.header.present
                => /\ Len(ret.val) >= 32
                   /\ \A k \in 1..32 : ret.val[k] = 0

\* What C10 says of the header unpackMessage returns for a packed message:
\* the first 32 bytes of h ++ encode(b), which is h only when h has 32 bytes.
SplitsAtOffset32 ==
    /\ ret.val.header = Slice(HeaderUsed \o msgpack_encode(arg.msg), 0, 32)
    /\ ret.val.header = HeaderUsed <=> Len(HeaderUsed) = 32

\* C10 (as claimed): packMessage never validates the header, and
\* unpackMessage(packMessage(b, h)) returns as header the first 32 bytes of
\* h ++ encode(b) for every h and b.
C10_Original ==
    /\ PackMessageFrames
    /\ op = "packUnpack"
            => /\ bytes = HeaderUsed \o msgpack_encode(arg.msg)
               /\ ret.kind = "return"
               /\ SplitsAtOffset32

\* C10 (amended): packMessage never validates the header and returns the
\* header used followed by encode(b); unpackMessage(packMessage(b, h))
\* raises the codec's error when the bytes after offset 32 do not decode
\* (they are empty whenever length(h) + length(encode(b)) <= 32), and
\* otherwise returns as header the first 32 bytes of h ++ encode(b), which
\* is h only when h has 32 bytes.
C10_NoHeaderValidation ==
    /\ PackMessageFrames
    /\ op = "packUnpack"
            => /\ bytes = HeaderUsed \o msgpack_encode(arg.msg)
               /\ ret.kind \in {"return", "throw"}
               /\ ret.kind = "return" => SplitsAtOffset32
               /\ ret.kind = "throw"
                    => msgpack_decode(SliceFrom(bytes, 32)).kind = "throw"
               /\ Len(bytes) <= 32 => ret.kind = "throw"

C10_Witness ==
    /\ op = "packUnpack"
    /\ arg.header.present
    /\ Len(arg.header.value) = 33
    /\ arg.header.value[33] = 145
    /\ ret.kind = "return"
    /\ ret.val.header = Slice(arg.header.value, 0, 32)
    /\ ret.val.body = Array(<<arg.msg>>)

====
